---- MODULE Spec2Model ----
(***************************************************************************)
(* Model of common/append_merkle/src/merkle_tree.rs: the OptionalHash      *)
(* element and its SSZ layout, the padding table, the MerkleTreeRead       *)
(* proof generation and MerkleTreeInitialData::leaves().                   *)
(*                                                                         *)
(* Three specifications share the variables:                               *)
(*   Spec      a tree behind MerkleTreeRead, gen_proof / gen_range_proof   *)
(*             and the proof conversions applied to it;                    *)
(*   SpecSsz   byte strings handed to from_ssz_bytes, and ssz_append of    *)
(*             what was decoded;                                           *)
(*   SpecData  MerkleTreeInitialData::leaves() and end_pad on caller       *)
(*             supplied depths and heights.                                *)
(* In Spec a digest (H256) is an abstract identifier; in SpecSsz it is the *)
(* sequence of its 32 bytes.                                               *)
(***************************************************************************)
EXTENDS Integers, Sequences, FiniteSets, TLC

VARIABLES layers, padding, call, bytes, data

vars == <<layers, padding, call, bytes, data>>

\* ---------------------------------------------------------------- bounds
MaxLeaves == 4

\* ------------------------------------------------------------- utilities
Range(s) == {s[i] : i \in 1..Len(s)}

Ok(v) == [ok |-> TRUE, val |-> v]

Err(e) == [ok |-> FALSE, err |-> e]

Idle == [op |-> "none"]

\* ---------------------------------------------------------- OptionalHash
\* OptionalHash(None) is the empty tuple, OptionalHash(Some(h)) is <<h>>.
none == <<>>

some(hash) == <<hash>>

is_none(oh) == Len(oh) = 0

is_some(oh) == Len(oh) = 1

H256_zero == 0

to_h256_or_zero(oh) == IF is_some(oh) THEN oh[1] ELSE H256_zero

null == none

is_null(e) == is_none(e)

\* Proof::new returns a Result: the pair of lemma and path, provided they
\* are in the length relation the spec gives for a Proof.
Proof_new(lemma, path) ==
    IF Len(lemma) # Len(path) + 2 THEN Err("InvalidProof")
    ELSE Ok([lemma |-> lemma, path |-> path])

convert_proof_to_h256(proof) ==
    Proof_new([i \in 1..Len(proof.lemma) |-> to_h256_or_zero(proof.lemma[i])],
              proof.path)

convert_proof_from_h256(proof) ==
    Proof_new([i \in 1..Len(proof.lemma) |-> some(proof.lemma[i])],
              proof.path)

\* ------------------------------------------------------------------ tree
\* A tree is the record [layers, padding]; layer and index are 0-based as
\* in the source, the sequences 1-based.
node(t, layer, index) == t.layers[layer + 1][index + 1]

height(t) == Len(t.layers)

layer_len(t, layer_height) == Len(t.layers[layer_height + 1])

padding_node(t, h) == t.padding[h + 1]

leaves(t) == layer_len(t, 0)

root(t) == node(t, height(t) - 1, 0)

\* ProofLoop with the path bit taken from the opposite parity.
RECURSIVE ProofLoop_parity(_, _, _, _)
ProofLoop_parity(t, h, to, st) ==
    IF h >= to THEN st
    ELSE LET i == st.index_in_layer
             sibling == IF i % 2 = 0
                        THEN IF i + 1 = layer_len(t, h)
                             THEN padding_node(t, h)
                             ELSE node(t, h, i + 1)
                        ELSE node(t, h, i - 1)
         IN ProofLoop_parity(t, h + 1, to,
                [lemma |-> Append(st.lemma, sibling),
                 path |-> Append(st.path, i % 2 = 1),
                 index_in_layer |-> i \div 2])

\* The state of gen_proof's loop after the iterations from..(to - 1).
RECURSIVE ProofLoop(_, _, _, _)
ProofLoop(t, h, to, st) ==
    IF h >= to THEN st
    ELSE LET i == st.index_in_layer
             sibling == IF i % 2 = 0
                        THEN IF i + 1 = layer_len(t, h)
                             THEN padding_node(t, h)
                             ELSE node(t, h, i + 1)
                        ELSE node(t, h, i - 1)
         IN ProofLoop(t, h + 1, to,
                [lemma |-> Append(st.lemma, sibling),
                 path |-> Append(st.path, i % 2 = 0),
                 index_in_layer |-> i \div 2])

LoopStart(t, leaf_index) ==
    [lemma |-> <<node(t, 0, leaf_index)>>, path |-> <<>>,
     index_in_layer |-> leaf_index]

\* gen_proof that never pushes the root.
gen_proof_no_root(t, leaf_index) ==
    IF leaf_index >= leaves(t) THEN Err("IndexOutOfBounds")
    ELSE IF is_null(node(t, 0, leaf_index)) THEN Err("NotReady")
    ELSE IF height(t) = 1 THEN Proof_new(<<root(t), root(t)>>, <<>>)
    ELSE LET st == ProofLoop(t, 0, height(t) - 1, LoopStart(t, leaf_index))
         IN IF \E e \in Range(st.lemma) : is_null(e)
            THEN Err("IncompleteData")
            ELSE Proof_new(st.lemma, st.path)

\* gen_proof that scans the lemma for null before the root is pushed.
gen_proof_scan_before_root(t, leaf_index) ==
    IF leaf_index >= leaves(t) THEN Err("IndexOutOfBounds")
    ELSE IF is_null(node(t, 0, leaf_index)) THEN Err("NotReady")
    ELSE IF height(t) = 1 THEN Proof_new(<<root(t), root(t)>>, <<>>)
    ELSE LET st == ProofLoop(t, 0, height(t) - 1, LoopStart(t, leaf_index))
         IN IF \E e \in Range(st.lemma) : is_null(e)
            THEN Err("IncompleteData")
            ELSE Proof_new(Append(st.lemma, root(t)), st.path)

\* gen_proof that takes the single-layer return before the null check.
gen_proof_single_first(t, leaf_index) ==
    IF leaf_index >= leaves(t) THEN Err("IndexOutOfBounds")
    ELSE IF height(t) = 1 THEN Proof_new(<<root(t), root(t)>>, <<>>)
    ELSE IF is_null(node(t, 0, leaf_index)) THEN Err("NotReady")
    ELSE LET st == ProofLoop(t, 0, height(t) - 1, LoopStart(t, leaf_index))
             lemma == Append(st.lemma, root(t))
         IN IF \E e \in Range(lemma) : is_null(e)
            THEN Err("IncompleteData")
            ELSE Proof_new(lemma, st.path)

\* gen_proof without the final scan for null lemma elements.
gen_proof_no_scan(t, leaf_index) ==
    IF leaf_index >= leaves(t) THEN Err("IndexOutOfBounds")
    ELSE IF is_null(node(t, 0, leaf_index)) THEN Err("NotReady")
    ELSE IF height(t) = 1 THEN Proof_new(<<root(t), root(t)>>, <<>>)
    ELSE LET st == ProofLoop(t, 0, height(t) - 1, LoopStart(t, leaf_index))
         IN Proof_new(Append(st.lemma, root(t)), st.path)

\* The bail! sites are named after the failure they report: "leaf index
\* out of bound" is IndexOutOfBounds, "Not ready to generate proof"
\* NotReady, "Not enough data to generate proof" IncompleteData. The
\* trace! in the loop reads node(height, index_in_layer) and keeps nothing.
gen_proof(t, leaf_index) ==
    IF leaf_index >= leaves(t) THEN Err("IndexOutOfBounds")
    ELSE IF is_null(node(t, 0, leaf_index)) THEN Err("NotReady")
    ELSE IF height(t) = 1 THEN Proof_new(<<root(t), root(t)>>, <<>>)
    ELSE LET st == ProofLoop(t, 0, height(t) - 1, LoopStart(t, leaf_index))
             lemma == Append(st.lemma, root(t))
         IN IF \E e \in Range(lemma) : is_null(e)
            THEN Err("IncompleteData")
            ELSE Proof_new(lemma, st.path)

\* gen_range_proof whose right proof is taken at end_index itself.
gen_range_proof_end(t, start_index, end_index) ==
    IF end_index <= start_index THEN Err("InvalidRange")
    ELSE LET left_proof == gen_proof(t, start_index)
         IN IF ~left_proof.ok THEN left_proof
            ELSE LET right_proof == gen_proof(t, end_index)
                 IN IF ~right_proof.ok THEN right_proof
                    ELSE Ok([left_proof |-> left_proof.val,
                             right_proof |-> right_proof.val])

\* "invalid proof range" is InvalidRange; each ? returns the failure of the
\* gen_proof it follows.
gen_range_proof(t, start_index, end_index) ==
    IF end_index <= start_index THEN Err("InvalidRange")
    ELSE LET left_proof == gen_proof(t, start_index)
         IN IF ~left_proof.ok THEN left_proof
            ELSE LET right_proof == gen_proof(t, end_index - 1)
                 IN IF ~right_proof.ok THEN right_proof
                    ELSE Ok([left_proof |-> left_proof.val,
                             right_proof |-> right_proof.val])

\* ------------------------------------------------------- the tree states
\* The trees are those of the spec: layer k + 1 holds one parent for every
\* pair of layer k, the last layer is the root alone, so a single-layer
\* tree is one leaf. Any node, and any layer's padding node, may be null.
\* Lengths of the layers of a tree of n >= 1 leaves, leaves first.
RECURSIVE LayerLens(_)
LayerLens(n) == IF n <= 1 THEN <<n>> ELSE <<n>> \o LayerLens((n + 1) \div 2)

\* The digest stored at a position, and the padding digest of a layer.
NodeHash(layer, index) == 100 * (layer + 1) + index

ZERO_HASHES(h) == 1000 + h

Tree(n, known, padded) ==
    LET lens == LayerLens(n)
    IN [layers |-> [k \in 1..Len(lens) |->
                      [j \in 1..lens[k] |->
                         IF <<k - 1, j - 1>> \in known
                         THEN some(NodeHash(k - 1, j - 1)) ELSE null]],
        padding |-> [k \in 1..Len(lens) |->
                      IF (k - 1) \in padded
                      THEN some(ZERO_HASHES(k - 1)) ELSE null]]

Positions(n) ==
    LET lens == LayerLens(n)
    IN {p \in (0..(Len(lens) - 1)) \X (0..(n - 1)) : p[2] < lens[p[1] + 1]}

tree == [layers |-> layers, padding |-> padding]

InitTree ==
    \E n \in 1..MaxLeaves :
      \E known \in SUBSET Positions(n) :
        \E padded \in SUBSET (0..(Len(LayerLens(n)) - 1)) :
          /\ layers = Tree(n, known, padded).layers
          /\ padding = Tree(n, known, padded).padding

Init ==
    /\ InitTree
    /\ call = Idle
    /\ bytes = <<>>
    /\ data = <<>>

\* gen_proof on any index, in or out of bounds.
GenProof ==
    /\ \E leaf_index \in 0..(MaxLeaves + 1) :
         call' = [op |-> "gen_proof", leaf_index |-> leaf_index,
                  result |-> gen_proof(tree, leaf_index)]
    /\ UNCHANGED <<layers, padding, bytes, data>>

GenRangeProof ==
    /\ \E start_index \in 0..(MaxLeaves + 1), end_index \in 0..(MaxLeaves + 1) :
         call' = [op |-> "gen_range_proof",
                  start_index |-> start_index, end_index |-> end_index,
                  result |-> gen_range_proof(tree, start_index, end_index)]
    /\ UNCHANGED <<layers, padding, bytes, data>>

\* A proof returned by gen_proof is handed to convert_proof_to_h256 ...
ConvertProofToH256 ==
    /\ call.op = "gen_proof"
    /\ call.result.ok
    /\ call' = [op |-> "convert_proof_to_h256", proof |-> call.result.val,
                result |-> convert_proof_to_h256(call.result.val)]
    /\ UNCHANGED <<layers, padding, bytes, data>>

\* ... and the H256 proof back to convert_proof_from_h256.
ConvertProofFromH256 ==
    /\ call.op = "convert_proof_to_h256"
    /\ call.result.ok
    /\ call' = [op |-> "convert_proof_from_h256", proof |-> call.proof,
                result |-> convert_proof_from_h256(call.result.val)]
    /\ UNCHANGED <<layers, padding, bytes, data>>

Next ==
    \/ GenProof
    \/ GenRangeProof
    \/ ConvertProofToH256
    \/ ConvertProofFromH256

Spec == Init /\ [][Next]_vars

\* ======================================================= SSZ of OptionalHash
SSZ_FIXED_LEN == 33

H256_LEN == 32

MaxU8 == 255

Zeros(n) == [i \in 1..n |-> 0]

\* H256::from_ssz_bytes: the 32 bytes are the digest.
H256_from_ssz_bytes(b) ==
    IF Len(b) # H256_LEN
    THEN Err([kind |-> "InvalidByteLength", len |-> Len(b), expected |-> H256_LEN])
    ELSE Ok(b)

\* from_ssz_bytes that takes every non-zero discriminant for Some.
from_ssz_bytes_lax(b) ==
    IF Len(b) # SSZ_FIXED_LEN
    THEN Err([kind |-> "InvalidByteLength", len |-> Len(b),
              expected |-> SSZ_FIXED_LEN])
    ELSE IF b[1] = 0 THEN Ok(none)
    ELSE LET hash == H256_from_ssz_bytes(SubSeq(b, 2, Len(b)))
         IN IF hash.ok THEN Ok(some(hash.val)) ELSE hash

from_ssz_bytes(b) ==
    IF Len(b) # SSZ_FIXED_LEN
    THEN Err([kind |-> "InvalidByteLength", len |-> Len(b),
              expected |-> SSZ_FIXED_LEN])
    ELSE IF b[1] = 0 THEN Ok(none)
    ELSE IF b[1] = 1
         THEN LET hash == H256_from_ssz_bytes(SubSeq(b, 2, Len(b)))
              IN IF hash.ok THEN Ok(some(hash.val)) ELSE hash
    ELSE Err([kind |-> "BytesInvalid",
              msg |-> "Invalid discriminant for OptionalHash"])

\* ssz_append: the buffer with the 33 bytes of the value appended.
ssz_append(oh, buf) ==
    IF is_some(oh) THEN (buf \o <<1>>) \o oh[1]
    ELSE (buf \o <<0>>) \o Zeros(H256_LEN)

\* ----------------------------------------------------- the decoder's input
LenSlack == 1

MaxFill == 2

\* len bytes: the discriminant d, then zeros but for the byte f at pos.
Input(len, d, pos, f) ==
    [i \in 1..len |-> IF i = 1 THEN d ELSE IF i = pos THEN f ELSE 0]

InputLens == {0, 1} \cup ((SSZ_FIXED_LEN - LenSlack)..(SSZ_FIXED_LEN + LenSlack))

InitSsz ==
    /\ \E len \in InputLens, d \in 0..MaxU8, f \in 0..MaxFill :
         \E pos \in 2..(IF len < 2 THEN 2 ELSE len) :
           bytes = Input(len, d, pos, f)
    /\ call = Idle
    /\ layers = <<>>
    /\ padding = <<>>
    /\ data = <<>>

FromSszBytes ==
    /\ call' = [op |-> "from_ssz_bytes", result |-> from_ssz_bytes(bytes)]
    /\ UNCHANGED <<layers, padding, bytes, data>>

\* The decoded value is encoded again into an empty buffer.
SszAppendDecoded ==
    /\ call.op = "from_ssz_bytes"
    /\ call.result.ok
    /\ call' = [op |-> "ssz_append", value |-> call.result.val,
                decoded |-> TRUE,
                result |-> ssz_append(call.result.val, <<>>)]
    /\ UNCHANGED <<layers, padding, bytes, data>>

\* An absent value is encoded into an empty buffer.
SszAppendNone ==
    /\ call' = [op |-> "ssz_append", value |-> none, decoded |-> FALSE,
                result |-> ssz_append(none, <<>>)]
    /\ UNCHANGED <<layers, padding, bytes, data>>

NextSsz ==
    \/ FromSszBytes
    \/ SszAppendDecoded
    \/ SszAppendNone

SpecSsz == InitSsz /\ [][NextSsz]_vars

\* ============================= MerkleTreeInitialData::leaves() and end_pad
\* A usize is the set of the positions of its one bits.
USIZE_BITS == 64

ZERO_HASHES_LEN == 64

Panic(msg) == [ok |-> FALSE, err |-> "panic", msg |-> msg]

IsPanic(r) == ~r.ok /\ r.err = "panic"

\* acc + (1 << k) in USIZE_BITS bits: the sum, and whether it overflowed.
RECURSIVE AddBit(_, _)
AddBit(acc, k) ==
    IF k >= USIZE_BITS THEN [val |-> acc, overflow |-> TRUE]
    ELSE IF k \in acc THEN AddBit(acc \ {k}, k + 1)
    ELSE [val |-> acc \cup {k}, overflow |-> FALSE]

\* The fold with 1 << subtree_depth in place of 1 << (subtree_depth - 1).
RECURSIVE LeavesFold_depth(_, _, _, _)
LeavesFold_depth(subtree_list, i, acc, overflow_checks) ==
    IF i > Len(subtree_list) THEN Ok(acc)
    ELSE LET subtree_depth == subtree_list[i][1]
         IN IF overflow_checks /\ subtree_depth >= USIZE_BITS
            THEN Panic("attempt to shift left with overflow")
            ELSE LET sum == AddBit(acc, subtree_depth % USIZE_BITS)
                 IN IF overflow_checks /\ sum.overflow
                    THEN Panic("attempt to add with overflow")
                    ELSE LeavesFold_depth(subtree_list, i + 1, sum.val,
                                          overflow_checks)

\* The fold of leaves() from entry i on. With overflow checks (debug
\* builds) an overflowing -, << or + panics; without them - and + wrap and
\* << takes the shift amount modulo the width.
RECURSIVE LeavesFold(_, _, _, _)
LeavesFold(subtree_list, i, acc, overflow_checks) ==
    IF i > Len(subtree_list) THEN Ok(acc)
    ELSE LET subtree_depth == subtree_list[i][1]
         IN IF overflow_checks /\ subtree_depth = 0
            THEN Panic("attempt to subtract with overflow")
            ELSE IF overflow_checks /\ subtree_depth - 1 >= USIZE_BITS
            THEN Panic("attempt to shift left with overflow")
            ELSE LET sum == AddBit(acc, (subtree_depth - 1) % USIZE_BITS)
                 IN IF overflow_checks /\ sum.overflow
                    THEN Panic("attempt to add with overflow")
                    ELSE LeavesFold(subtree_list, i + 1, sum.val,
                                    overflow_checks)

\* MerkleTreeInitialData::leaves(); named apart from MerkleTreeRead::leaves.
data_leaves(d, overflow_checks) ==
    LeavesFold(d.subtree_list, 1, {}, overflow_checks)

end_pad(h) ==
    IF h < ZERO_HASHES_LEN THEN Ok(some(ZERO_HASHES(h)))
    ELSE Panic("index out of bounds")

\* ------------------------------------------------------ the caller's data
MaxSubtrees == 3

MaxDepth == 3

Depths == (0..MaxDepth) \cup ((USIZE_BITS - 1)..(USIZE_BITS + 1))

Heights == (0..MaxDepth) \cup ((ZERO_HASHES_LEN - 1)..(ZERO_HASHES_LEN + 1))

InitData ==
    /\ \E n \in 0..MaxSubtrees :
         \E ds \in [1..n -> Depths] :
           \E r \in {null, some(ZERO_HASHES(0))}, kl \in 0..1, en \in 0..1 :
             data = [subtree_list |-> [i \in 1..n |-> <<ds[i], r>>],
                     known_leaves |-> [i \in 1..kl |-> <<0, some(NodeHash(0, 0))>>],
                     extra_mpt_nodes |->
                         [i \in 1..en |-> <<1, 0, some(NodeHash(1, 0))>>]]
    /\ call = Idle
    /\ layers = <<>>
    /\ padding = <<>>
    /\ bytes = <<>>

\* leaves() in a build with or without overflow checks.
Leaves ==
    /\ \E overflow_checks \in BOOLEAN :
         call' = [op |-> "leaves", overflow_checks |-> overflow_checks,
                  result |-> data_leaves(data, overflow_checks)]
    /\ UNCHANGED <<layers, padding, bytes, data>>

EndPad ==
    /\ \E h \in Heights :
         call' = [op |-> "end_pad", height |-> h, result |-> end_pad(h)]
    /\ UNCHANGED <<layers, padding, bytes, data>>

NextData ==
    \/ Leaves
    \/ EndPad

SpecData == InitData /\ [][NextData]_vars

\* ================================================= claims on gen_proof
IsGenProof == call.op = "gen_proof"

InBounds == IsGenProof /\ call.leaf_index < leaves(tree)

LeafKnown == InBounds /\ ~is_null(node(tree, 0, call.leaf_index))

FullyKnown ==
    /\ \A k \in 0..(height(tree) - 1) :
         \A j \in 0..(layer_len(tree, k) - 1) : ~is_null(node(tree, k, j))
    /\ \A k \in 0..(height(tree) - 1) : ~is_null(padding_node(tree, k))

RECURSIVE Pow2(_)
Pow2(k) == IF k = 0 THEN 1 ELSE 2 * Pow2(k - 1)

\* Index, in layer k, of the ancestor of leaf i.
PathIndex(i, k) == i \div Pow2(k)

\* What stands beside that ancestor: its sibling, or the layer's padding
\* node where it is the last node of the layer and a left child.
SiblingAt(t, i, k) ==
    LET j == PathIndex(i, k)
    IN IF j % 2 = 1 THEN node(t, k, j - 1)
       ELSE IF j + 1 < layer_len(t, k) THEN node(t, k, j + 1)
       ELSE padding_node(t, k)

\* C1: in a tree whose nodes and padding nodes are all known, gen_proof of
\* every in-bounds index succeeds; the lemma starts with node(0, i) and ends
\* with the root; it holds two elements more than the path when height > 1
\* and is <<root, root>> with an empty path when height = 1.
C1_FullTreeProof ==
    (InBounds /\ FullyKnown) =>
        /\ call.result.ok
        /\ LET p == call.result.val
           IN /\ p.lemma[1] = node(tree, 0, call.leaf_index)
              /\ p.lemma[Len(p.lemma)] = root(tree)
              /\ height(tree) > 1 => Len(p.lemma) = Len(p.path) + 2
              /\ height(tree) = 1 =>
                    (p.lemma = <<root(tree), root(tree)>> /\ p.path = <<>>)

C1_Witness ==
    /\ InBounds
    /\ FullyKnown
    /\ leaves(tree) = 3
    /\ call.leaf_index = 2
    /\ call.result.ok
    /\ Len(call.result.val.lemma) = 4

NullSiblingOrRoot ==
    \/ is_null(root(tree))
    \/ \E k \in 0..(height(tree) - 2) :
         is_null(SiblingAt(tree, call.leaf_index, k))

NullInteriorAncestor ==
    \E k \in 1..(height(tree) - 2) :
        is_null(node(tree, k, PathIndex(call.leaf_index, k)))

\* C2 as stated: with the leaf known, a null sibling, a null interior node
\* on the path or a null root makes gen_proof fail with IncompleteData.
C2_Original ==
    (LeafKnown /\ (NullSiblingOrRoot \/ NullInteriorAncestor)) =>
        call.result = Err("IncompleteData")

\* C2 amended: with the leaf known, gen_proof fails with IncompleteData when
\* a sibling on the path (or the padding node standing in for a missing
\* right sibling) or the root is null, and returns a proof otherwise,
\* whatever the interior nodes on the path are.
C2_IncompleteData ==
    LeafKnown =>
        IF NullSiblingOrRoot
        THEN call.result = Err("IncompleteData")
        ELSE call.result.ok

C2_Witness ==
    /\ LeafKnown
    /\ height(tree) = 3
    /\ ~is_null(root(tree))
    /\ \E k \in 0..1 : is_null(SiblingAt(tree, call.leaf_index, k))
    /\ call.result = Err("IncompleteData")

\* C3: an index at or beyond leaves() fails with IndexOutOfBounds whatever
\* the nodes hold; an in-bounds index whose leaf is null fails with
\* NotReady, also in a single-layer tree and with null siblings or root.
C3_FailureOrder ==
    IsGenProof =>
        /\ call.leaf_index >= leaves(tree) =>
              call.result = Err("IndexOutOfBounds")
        /\ (InBounds /\ ~LeafKnown) => call.result = Err("NotReady")

C3_Witness ==
    /\ InBounds
    /\ ~LeafKnown
    /\ height(tree) = 1
    /\ call.result = Err("NotReady")

\* C4: in a returned proof of a tree of height h > 1, for each layer k in
\* 0..h-2 with j = i >> k, path[k] is true exactly when j is even and
\* lemma[k+1] is the left sibling when j is odd, the right sibling when j is
\* even and it exists, and the layer's padding node otherwise; gen_proof(1)
\* of a fully known 4-leaf tree is [L1, L0, node(1,1), root], [false, true].
C4_SiblingsAndPath ==
    (IsGenProof /\ call.result.ok /\ height(tree) > 1) =>
        LET p == call.result.val
            i == call.leaf_index
        IN /\ Len(p.path) = height(tree) - 1
           /\ Len(p.lemma) = height(tree) + 1
           /\ \A k \in 0..(height(tree) - 2) :
                /\ p.path[k + 1] = (PathIndex(i, k) % 2 = 0)
                /\ p.lemma[k + 2] = SiblingAt(tree, i, k)
           /\ (leaves(tree) = 4 /\ i = 1) =>
                /\ p.lemma = <<node(tree, 0, 1), node(tree, 0, 0),
                               node(tree, 1, 1), root(tree)>>
                /\ p.path = <<FALSE, TRUE>>

C4_Witness ==
    /\ IsGenProof
    /\ call.result.ok
    /\ leaves(tree) = 3
    /\ call.leaf_index = 2
    /\ call.result.val.lemma[2] = padding_node(tree, 0)
    /\ call.result.val.path = <<TRUE, FALSE>>

\* C5: gen_range_proof(s, e) fails with InvalidRange when e <= s; otherwise
\* it fails with the failure of gen_proof(s), else with that of
\* gen_proof(e - 1), and else returns exactly those two proofs.
C5_RangeProof ==
    call.op = "gen_range_proof" =>
        LET s == call.start_index
            e == call.end_index
        IN IF e <= s THEN call.result = Err("InvalidRange")
           ELSE LET l == gen_proof(tree, s)
                    r == gen_proof(tree, e - 1)
                IN /\ call.result.ok <=> (l.ok /\ r.ok)
                   /\ call.result.ok =>
                         /\ call.result.val.left_proof = l.val
                         /\ call.result.val.right_proof = r.val
                   /\ ~l.ok => call.result = l
                   /\ (l.ok /\ ~r.ok) => call.result = r

C5_Witness ==
    /\ call.op = "gen_range_proof"
    /\ call.start_index = 1
    /\ call.end_index = 4
    /\ call.result.ok
    /\ call.result.val.left_proof # call.result.val.right_proof

\* C10: a proof returned by gen_proof holds no null lemma element, so
\* convert_proof_to_h256 never falls back to the zero digest on it and
\* converting back with convert_proof_from_h256 gives the same proof.
C10_NoNullInProof ==
    /\ (IsGenProof /\ call.result.ok) =>
          \A e \in Range(call.result.val.lemma) : ~is_null(e)
    /\ call.op = "convert_proof_to_h256" =>
          /\ call.result.ok
          /\ Len(call.result.val.lemma) = Len(call.proof.lemma)
          /\ \A i \in 1..Len(call.proof.lemma) :
                call.proof.lemma[i] = some(call.result.val.lemma[i])
    /\ call.op = "convert_proof_from_h256" =>
          /\ call.result.ok
          /\ call.result.val.lemma = call.proof.lemma
          /\ call.result.val.path = call.proof.path

C10_Witness ==
    /\ call.op = "convert_proof_from_h256"
    /\ Len(call.proof.lemma) = 2
    /\ Len(layers) = 1

\* ===================================================== claims on the SSZ
\* C6: for every input the decoder accepts, encoding the decoded value
\* gives the input back; an absent value encodes as 0 followed by 32 zeros.
C6_RoundTrip ==
    call.op = "ssz_append" =>
        /\ call.decoded => call.result = bytes
        /\ is_none(call.value) => call.result = <<0>> \o Zeros(H256_LEN)

\* C7: from_ssz_bytes rejects every length other than 33 with
\* InvalidByteLength, before looking at the discriminant; of 33 bytes it
\* rejects a first byte other than 0 and 1 as an invalid discriminant,
\* decodes 0 to the absent value and 1 to the digest in bytes 1..32.
C7_DecodeRejects ==
    call.op = "from_ssz_bytes" =>
        IF Len(bytes) # 33
        THEN call.result = Err([kind |-> "InvalidByteLength",
                                len |-> Len(bytes), expected |-> 33])
        ELSE IF bytes[1] \notin {0, 1}
        THEN /\ ~call.result.ok
             /\ call.result.err.kind = "BytesInvalid"
             /\ call.result.err.msg = "Invalid discriminant for OptionalHash"
        ELSE /\ call.result.ok
             /\ bytes[1] = 0 => call.result.val = none
             /\ bytes[1] = 1 =>
                   call.result.val = some([i \in 1..32 |-> bytes[i + 1]])

C7_Witness ==
    /\ call.op = "from_ssz_bytes"
    /\ Len(bytes) = 33
    /\ bytes[1] = 2
    /\ ~call.result.ok

\* ========================================== claims on leaves() and end_pad
\* C8: no operation panics on malformed input: leaves() and end_pad return
\* a value or an error for every subtree_list and every height.
C8_NoPanic ==
    call.op \in {"leaves", "end_pad"} => ~IsPanic(call.result)

\* The sum of 2^(depth-1) over the list, added column by column: the
\* number of entries contributing bit b, and the carry into bit b.
BitCount(list, b) == Cardinality({i \in 1..Len(list) : list[i][1] - 1 = b})

RECURSIVE CarryInto(_, _)
CarryInto(list, b) ==
    IF b = 0 THEN 0
    ELSE (BitCount(list, b - 1) + CarryInto(list, b - 1)) \div 2

SumBits(list) ==
    {b \in 0..(USIZE_BITS - 1) :
        (BitCount(list, b) + CarryInto(list, b)) % 2 = 1}

SumFits(list) ==
    /\ \A i \in 1..Len(list) : list[i][1] \in 1..USIZE_BITS
    /\ CarryInto(list, USIZE_BITS) = 0

RECURSIVE SmallSum(_, _)
SmallSum(list, i) ==
    IF i > Len(list) THEN 0 ELSE Pow2(list[i][1] - 1) + SmallSum(list, i + 1)

RECURSIVE WordValue(_)
WordValue(w) ==
    IF w = {} THEN 0
    ELSE LET b == CHOOSE x \in w : TRUE IN Pow2(b) + WordValue(w \ {b})

\* C9: for a subtree_list of depths >= 1 whose sum fits the word, leaves()
\* is the sum of 2^(depth-1) over the entries, 0 for the empty list,
\* whatever their order and whatever known_leaves and extra_mpt_nodes hold.
C9_LeavesSum ==
    (call.op = "leaves" /\ SumFits(data.subtree_list)) =>
        /\ call.result = Ok(SumBits(data.subtree_list))
        /\ (\A i \in 1..Len(data.subtree_list) :
               data.subtree_list[i][1] <= MaxDepth + 1) =>
             WordValue(call.result.val) = SmallSum(data.subtree_list, 1)
        /\ data.subtree_list = <<>> => call.result = Ok({})

C9_Witness ==
    /\ call.op = "leaves"
    /\ Len(data.subtree_list) = 3
    /\ data.subtree_list[1][1] = 1
    /\ data.subtree_list[2][1] = 3
    /\ data.subtree_list[3][1] = 1
    /\ call.result = Ok({1, 2})
    /\ Len(data.known_leaves) = 1
====
